---- MODULE Spec2Model ----
(***************************************************************************)
(* A model of sudoku.Solver (src/sudoku.py): the recursive backtracking    *)
(* search of Solver.solve, its validity checks and the optional structural *)
(* validation.  Grids are indexed from 0 as in the source: a grid is a     *)
(* function from row index to a function from column index to a cell.      *)
(* The native recursion of solve is the sequence `stack` of frames.        *)
(***************************************************************************)
EXTENDS Integers, Sequences, FiniteSets, TLC

\* ------------------------------------------------------------------ bounds

\* Problems of size 1, 2 and 3 with few clues: at most MaxClues non-zero cells.
MaxClues == 1
\* Problems with clues at the start of the first row: only the first
\* MaxPrefix cells may hold a clue.
MaxPrefix == 2
\* Nearly solved problems of size 4: at most MaxHoles empty cells.
MaxHoles == 2

\* Grid sizes of the problems handed to the Solver (1 and 4 are perfect
\* squares; 2, 3 and 5 are not).
SmallSizes == {1, 2, 3}

LargeSizes == {4, 5}

Sizes == SmallSizes \cup LargeSizes

\* ----------------------------------------------------------- grid helpers

Idx(n) == 0 .. (n - 1)

Cells(n) == Idx(n) \X Idx(n)

\* The n x n grid holding 0 everywhere.
EmptyGrid(n) == [r \in Idx(n) |-> [c \in Idx(n) |-> 0]]

\* grid[row][column] = value, as an in-place list assignment.
SetCell(grid, row, column, value) ==
    [grid EXCEPT ![row] = [@ EXCEPT ![column] = value]]

\* len(x) of a list modelled as a function on 0..len-1.
PyLen(f) == Cardinality(DOMAIN f)

\* int(math.sqrt(n)) for the small n of the model.
IntSqrt(n) == CHOOSE k \in 0 .. n : k * k <= n /\ (k + 1) * (k + 1) > n

\* ------------------------------------------------------------------ state

VARIABLES
    problem,    \* self.problem: the grid handed to Solver(problem)
    size,       \* self.size = len(self.problem)
    box_size,   \* self.box_size = int(math.sqrt(self.size))
    is_list,    \* is_list[r]: isinstance(problem[r], list)
    solution,   \* self.solution: the working grid, mutated by the search
    stack,      \* the active solve calls that have chosen a cell, outermost first
    pc,         \* "idle" | "call" | "loop" | "ret": where the running call stands
    retval,     \* "grid" | "False": what the call that just returned gave back
    validate,   \* the validate argument of the latest top-level call
    last        \* how the latest finished top-level call on this Solver ended

vars ==
    <<problem, size, box_size, is_list, solution, stack, pc, retval, validate,
      last>>

\* What Solver.__init__ sets once and no method assigns again.
fixed == <<size, box_size, is_list>>

\* Mutant of SolutionAliasesProblem: a shallow copy, whose rows are the rows
\* of the problem.
SolutionAliasesProblem_Shallow == TRUE

\* copy.deepcopy(problem): the solution shares no row with the problem, so a
\* write to the solution grid leaves the problem grid as it is.
SolutionAliasesProblem == FALSE

\* The problem grid after the solution grid has become `written`.
ProblemAfterWrite(written) ==
    IF SolutionAliasesProblem THEN written ELSE problem

\* --------------------------------------------------------- the checks

\* value in self.solution[row]
used_in_row(row, value) ==
    \E c \in DOMAIN solution[row] : solution[row][c] = value

\* Mutant of used_in_column: only the rows 0..box_size-1 are scanned.
used_in_column_BoxRows(column, value) ==
    \E r \in Idx(box_size) : solution[r][column] = value

\* for row in range(self.size): if self.solution[row][column] == value
used_in_column(column, value) ==
    \E r \in Idx(size) : solution[r][column] = value

\* The first row and the first column of the box of (row, column).
box_row_start(row) == (row \div box_size) * box_size

box_column_start(column) == (column \div box_size) * box_size

\* The i-th cell (from 1) that the nested loops of _used_in_box read: box
\* rows outermost, box columns innermost, over the ranges of _find_box.
find_box(row, column, i) ==
    << box_row_start(row) + ((i - 1) \div box_size),
       box_column_start(column) + ((i - 1) % box_size) >>

\* Whether self.solution[cell[0]][cell[1]] is an index inside the lists.
InGrid(cell) ==
    /\ cell[1] \in DOMAIN solution
    /\ cell[2] \in DOMAIN solution[cell[1]]

\* The scan of the box reads its i-th cell: no cell before it lies outside
\* the grid (the read raises IndexError) or holds value (return True).
BoxScanReaches(row, column, value, i) ==
    \A j \in 1 .. (i - 1) :
        /\ InGrid(find_box(row, column, j))
        /\ solution[find_box(row, column, j)[1]][find_box(row, column, j)[2]]
              # value

\* _used_in_box ends in IndexError: the scan reads a cell outside the grid.
used_in_box_raises(row, column, value) ==
    \E i \in 1 .. (box_size * box_size) :
        /\ BoxScanReaches(row, column, value, i)
        /\ ~InGrid(find_box(row, column, i))

\* Mutant of used_in_box: the box is not looked at.
used_in_box_Skipped(row, column, value) == FALSE

\* _used_in_box returns True: the scan reads a cell that holds value.
used_in_box(row, column, value) ==
    \E i \in 1 .. (box_size * box_size) :
        /\ BoxScanReaches(row, column, value, i)
        /\ InGrid(find_box(row, column, i))
        /\ solution[find_box(row, column, i)[1]][find_box(row, column, i)[2]]
              = value

\* `and` evaluates left to right and stops at the first false operand: the
\* box is scanned only when the row and the column do not hold the value.
is_valid_move_raises(row, column, value) ==
    /\ ~used_in_row(row, value)
    /\ ~used_in_column(column, value)
    /\ used_in_box_raises(row, column, value)

is_valid_move(row, column, value) ==
    /\ ~used_in_row(row, value)
    /\ ~used_in_column(column, value)
    /\ ~used_in_box(row, column, value)

\* The cells of `grid` holding 0.
EmptyCells(grid) ==
    {cell \in Cells(PyLen(grid)) : grid[cell[1]][cell[2]] = 0}

\* Mutant of RowMajorBefore: columns left to right, rows top to bottom.
RowMajorBefore_ColumnMajor(a, b) ==
    a[2] < b[2] \/ (a[2] = b[2] /\ a[1] <= b[1])

\* Row-major order of cells: rows top to bottom, columns left to right.
RowMajorBefore(a, b) == a[1] < b[1] \/ (a[1] = b[1] /\ a[2] <= b[2])

\* _next_empty_cell: the first cell holding 0 in row-major order; the
\* function falls off its end (None) when EmptyCells(solution) is empty.
next_empty_cell ==
    CHOOSE cell \in EmptyCells(solution) :
        \A other \in EmptyCells(solution) : RowMajorBefore(cell, other)

\* Mutant of validate_problem: the rows are checked before the size.
validate_problem_RowsFirst ==
    LET bad == {r \in Idx(size) : ~is_list[r] \/ PyLen(problem[r]) # size}
        first == CHOOSE r \in bad : \A q \in bad : r <= q
    IN  IF bad # {} /\ ~is_list[first] THEN "problem is not a list of lists"
        ELSE IF bad # {} THEN "problem is not a square grid"
        ELSE IF box_size * box_size # size THEN "problem size is not a square"
        ELSE "ok"

\* _validate_problem: "ok", or the message of the InvalidProblemError raised.
validate_problem ==
    LET bad == {r \in Idx(size) : ~is_list[r] \/ PyLen(problem[r]) # size}
        first == CHOOSE r \in bad : \A q \in bad : r <= q
    IN  IF box_size * box_size # size THEN "problem size is not a square"
        ELSE IF bad = {} THEN "ok"
        ELSE IF ~is_list[first] THEN "problem is not a list of lists"
        ELSE "problem is not a square grid"

\* -------------------------------------------------------- the problems

\* The grids of size n with at most k non-zero cells.
RECURSIVE Sparse(_, _)
Sparse(n, k) ==
    IF k = 0 THEN {EmptyGrid(n)}
    ELSE LET fewer == Sparse(n, k - 1)
         IN  fewer \cup {SetCell(g, cell[1], cell[2], v) :
                            g \in fewer, cell \in Cells(n), v \in 1 .. n}

\* The filled grid a nearly solved problem is cut from: the rows of the
\* identity permutation shifted so that rows, columns and boxes are
\* duplicate-free.
BaseGrid(n) ==
    [r \in Idx(n) |-> [c \in Idx(n) |->
        1 + ((IntSqrt(n) * (r % IntSqrt(n)) + (r \div IntSqrt(n)) + c) % n)]]

\* The grids obtained from g by emptying at most k cells.
RECURSIVE WithHoles(_, _)
WithHoles(g, k) ==
    IF k = 0 THEN {g}
    ELSE LET fewer == WithHoles(g, k - 1)
         IN  fewer \cup {SetCell(h, cell[1], cell[2], 0) :
                            h \in fewer, cell \in Cells(PyLen(g))}

\* Nearly solved problems of size n: the base grid, or the base grid with
\* its first clue replaced by another value, with at most MaxHoles cells
\* emptied.
Dense(n) ==
    UNION {WithHoles(g, MaxHoles) :
              g \in {SetCell(BaseGrid(n), 0, 0, v) : v \in 1 .. n}}

\* The grids of size n whose first k cells of row 0 hold any of 0..n and
\* whose other cells are empty.
Prefix(n, k) ==
    {[EmptyGrid(n) EXCEPT ![0] = [c \in Idx(n) |->
                                    IF c < k THEN start[c] ELSE 0]] :
        start \in [Idx(IF k < n THEN k ELSE n) -> 0 .. n]}

\* The square list-of-lists problems of the model.
SquareGrids ==
    UNION {Sparse(n, MaxClues) : n \in SmallSizes}
        \cup UNION {Prefix(n, MaxPrefix) : n \in Sizes}
        \cup Dense(4)

AllLists(n) == [r \in Idx(n) |-> TRUE]

\* Problems that are not square lists of lists: every row is empty of clues
\* and is a list of size cells, a list one cell short, a list one cell long,
\* or not a list at all; at least one row is not a list of size cells.
RowShapes == {"list", "short", "long", "other"}

ShapedRow(n, shape) ==
    [c \in Idx(CASE shape = "short" -> n - 1
                 [] shape = "long" -> n + 1
                 [] OTHER -> n) |-> 0]

MalformedOfSize(n) ==
    {[grid |-> [r \in Idx(n) |-> ShapedRow(n, shapes[r])],
      is_list |-> [r \in Idx(n) |-> shapes[r] # "other"]] :
        shapes \in {sh \in [Idx(n) -> RowShapes] :
                       \E r \in Idx(n) : sh[r] # "list"}}

Malformed == UNION {MalformedOfSize(n) : n \in Sizes}

Problems ==
    {[grid |-> g, is_list |-> AllLists(PyLen(g))] : g \in SquareGrids}
        \cup Malformed

\* The problem is a list of lists with as many columns as rows.
IsSquareGrid ==
    \A r \in Idx(size) : is_list[r] /\ PyLen(problem[r]) = size

\* ---------------------------------------------------------- the actions

\* How a top-level call ended: outcome "grid" or "False" (returned), or
\* "InvalidProblemError" or "IndexError" (raised, with the message).
Outcome(outcome, message) == [outcome |-> outcome, message |-> message]

Init ==
    \E p \in Problems :
        /\ problem = p.grid
        /\ size = PyLen(p.grid)
        /\ box_size = IntSqrt(PyLen(p.grid))
        /\ is_list = p.is_list
        /\ solution = p.grid
        /\ stack = << >>
        /\ pc = "idle"
        /\ retval = "none"
        /\ validate = FALSE
        /\ last = Outcome("none", "")

Top == stack[Len(stack)]

Pop == SubSeq(stack, 1, Len(stack) - 1)

\* The frame of a call that has chosen cell: the loop variable `number`
\* starts at 1; `entry` records the solution grid as the call found it.
Frame(cell) ==
    [row |-> cell[1], column |-> cell[2], number |-> 1, entry |-> solution]

\* Mutant of NextNumber: the loop steps by two.
NextNumber_ByTwo(frame) == [frame EXCEPT !.number = @ + 2]

\* Mutant of NextNumber: the loop variable does not advance.
NextNumber_Stuck(frame) == frame

\* The frame with its loop variable advanced to the next number.
NextNumber(frame) == [frame EXCEPT !.number = @ + 1]

\* A top-level call solver.solve(v).  With v true _validate_problem runs
\* first and its InvalidProblemError ends the call.  The callers modelled
\* pass validate=False only for square lists of lists.
Solve(v) ==
    /\ pc = "idle"
    /\ v \/ IsSquareGrid
    /\ validate' = v
    /\ IF v /\ validate_problem # "ok"
       THEN /\ last' = Outcome("InvalidProblemError", validate_problem)
            /\ pc' = "idle"
       ELSE /\ pc' = "call"
            /\ UNCHANGED last
    /\ UNCHANGED <<problem, fixed, solution, stack, retval>>

\* The start of a call of solve, top-level or nested: with no empty cell the
\* call returns self.solution, else it enters its loop over 1..size.
Enter ==
    /\ pc = "call"
    /\ IF EmptyCells(solution) = {}
       THEN /\ pc' = "ret"
            /\ retval' = "grid"
            /\ UNCHANGED stack
       ELSE /\ pc' = "loop"
            /\ stack' = Append(stack, Frame(next_empty_cell))
            /\ UNCHANGED retval
    /\ UNCHANGED <<problem, fixed, solution, validate, last>>

\* One iteration of the loop over number: an IndexError of the box check
\* unwinds every call; a valid number is written and solve is called; any
\* other number is skipped.
Try ==
    /\ pc = "loop"
    /\ Top.number <= size
    /\ IF is_valid_move_raises(Top.row, Top.column, Top.number)
       THEN /\ last' = Outcome("IndexError", "list index out of range")
            /\ stack' = << >>
            /\ pc' = "idle"
            /\ UNCHANGED <<problem, solution>>
       ELSE IF is_valid_move(Top.row, Top.column, Top.number)
       THEN /\ solution' = SetCell(solution, Top.row, Top.column, Top.number)
            /\ problem' = ProblemAfterWrite(solution')
            /\ pc' = "call"
            /\ UNCHANGED <<stack, last>>
       ELSE /\ stack' = Append(Pop, NextNumber(Top))
            /\ UNCHANGED <<problem, solution, pc, last>>
    /\ UNCHANGED <<fixed, retval, validate>>

\* The loop has run through 1..size: return False.
Exhausted ==
    /\ pc = "loop"
    /\ Top.number > size
    /\ stack' = Pop
    /\ pc' = "ret"
    /\ retval' = "False"
    /\ UNCHANGED <<problem, fixed, solution, validate, last>>

\* Mutant of UndoWrite: the failed number is left in the cell.
UndoWrite_Forgotten(grid, row, column) == grid

\* self.solution[row][column] = 0: the write of the failed number is undone.
UndoWrite(grid, row, column) == SetCell(grid, row, column, 0)

\* `if self.solve()`: a list is true when it is not empty, False is false.
Truthy(value) == value = "grid" /\ PyLen(solution) # 0

\* A nested call has returned to the loop of its caller: a true value is
\* passed on (return self.solution), a false one resets the cell to 0 and
\* the loop goes on with the next number.
Return ==
    /\ pc = "ret"
    /\ stack # << >>
    /\ IF Truthy(retval)
       THEN /\ stack' = Pop
            /\ retval' = "grid"
            /\ UNCHANGED <<problem, solution, pc>>
       ELSE /\ solution' = UndoWrite(solution, Top.row, Top.column)
            /\ problem' = ProblemAfterWrite(solution')
            /\ stack' = Append(Pop, NextNumber(Top))
            /\ pc' = "loop"
            /\ retval' = "none"
    /\ UNCHANGED <<fixed, validate, last>>

\* The top-level call returns to its caller.
Finish ==
    /\ pc = "ret"
    /\ stack = << >>
    /\ last' = Outcome(retval, "")
    /\ pc' = "idle"
    /\ retval' = "none"
    /\ UNCHANGED <<problem, fixed, solution, stack, validate>>

Next ==
    \/ \E v \in BOOLEAN : Solve(v)
    \/ Enter
    \/ Try
    \/ Exhausted
    \/ Return
    \/ Finish

Spec == Init /\ [][Next]_vars

\* The interpreter runs a started call to its end.
FairSpec == Spec /\ WF_vars(Next)

\* ------------------------------------------------- what the claims speak of

PerfectSquare(n) == IntSqrt(n) * IntSqrt(n) = n

\* Two different cells that share a row, a column or a box of side root.
Peers(root, a, b) ==
    /\ a # b
    /\ \/ a[1] = b[1]
       \/ a[2] = b[2]
       \/ /\ a[1] \div root = b[1] \div root
          /\ a[2] \div root = b[2] \div root

\* No non-zero value occurs twice in a row, a column or a box of the grid
\* (boxes by floor division with the integer square root of its size).
NoDuplicates(grid) ==
    LET n == PyLen(grid)
        root == IntSqrt(PyLen(grid))
    IN  \A a \in Cells(n) :
            grid[a[1]][a[2]] # 0
                => \A b \in Cells(n) :
                       grid[b[1]][b[2]] = grid[a[1]][a[2]] => ~Peers(root, a, b)

\* The permutations of 1..n, as rows.
Perms(n) ==
    {row \in [Idx(n) -> 1 .. n] : \A i, j \in Idx(n) : i # j => row[i] # row[j]}

\* The first k rows of the filled duplicate-free grids of size n, as grids of
\* n rows whose other rows are empty.
RECURSIVE FilledRows(_, _)
FilledRows(n, k) ==
    IF k = 0 THEN {EmptyGrid(n)}
    ELSE {g \in {[h EXCEPT ![k - 1] = row] :
                    h \in FilledRows(n, k - 1), row \in Perms(n)} :
             NoDuplicates(g)}

\* Every filled duplicate-free grid of each perfect-square size of the model.
SolvedGrids == [n \in {1, 4} |-> FilledRows(n, n)]

\* The rows, the columns and the boxes of a grid of perfect-square size n,
\* each as its set of cells.
Units(n) ==
    {{<<r, c>> : c \in Idx(n)} : r \in Idx(n)}
        \cup {{<<r, c>> : r \in Idx(n)} : c \in Idx(n)}
        \cup {{cell \in Cells(n) : /\ cell[1] \div IntSqrt(n) = i
                                   /\ cell[2] \div IntSqrt(n) = j} :
                 i \in Idx(IntSqrt(n)), j \in Idx(IntSqrt(n))}

\* Every row, column and box holds each of 1..n exactly once.
EachValueOnce(grid) ==
    \A unit \in Units(PyLen(grid)), v \in 1 .. PyLen(grid) :
        Cardinality({cell \in unit : grid[cell[1]][cell[2]] = v}) = 1

\* The filled duplicate-free grids that agree with the clues of grid.
Completions(grid) ==
    {g \in SolvedGrids[PyLen(grid)] :
        \A cell \in Cells(PyLen(grid)) :
            grid[cell[1]][cell[2]] # 0
                => g[cell[1]][cell[2]] = grid[cell[1]][cell[2]]}

\* The grid read in row-major order: cell i of n * n.
Flat(grid, i) == grid[i \div PyLen(grid)][i % PyLen(grid)]

\* g is at most h in the lexicographic order of the row-major readings.
LexLeq(g, h) ==
    \/ g = h
    \/ \E i \in Idx(PyLen(g) * PyLen(g)) :
          /\ Flat(g, i) < Flat(h, i)
          /\ \A j \in Idx(i) : Flat(g, j) = Flat(h, j)

\* Some row of the problem holds the same non-zero value in two cells.
RowClash ==
    \E r \in Idx(size) : \E c, d \in Idx(size) :
        c # d /\ problem[r][c] # 0 /\ problem[r][c] = problem[r][d]

NumEmpty(grid) == Cardinality(EmptyCells(grid))

\* The latest top-level call has ended and returned the solution grid.
ReturnedGrid == pc = "idle" /\ last.outcome = "grid"

\* The latest top-level call has ended and returned False.
ReturnedFalse == pc = "idle" /\ last.outcome = "False"

\* The latest top-level call has ended in InvalidProblemError.
RaisedInvalid == pc = "idle" /\ last.outcome = "InvalidProblemError"

\* A square problem of perfect-square size whose clues clash nowhere.
CleanProblem ==
    IsSquareGrid /\ PerfectSquare(size) /\ NoDuplicates(problem)

\* ---------------------------------------------------------------- C1

\* C1: for a problem of perfect-square size whose clues hold no duplicate in
\* any row, column or box, a grid returned by solve has no empty cell and
\* every row, column and box of it holds each of 1..size exactly once.
C1_ReturnedGridIsSolved ==
    (ReturnedGrid /\ CleanProblem)
        => (EmptyCells(solution) = {} /\ EachValueOnce(solution))

\* A 4x4 problem with at least 14 empty cells has been solved.
C1_Witness ==
    ReturnedGrid /\ CleanProblem /\ size = 4 /\ NumEmpty(problem) >= 14

\* ---------------------------------------------------------------- C2

\* C2: for a problem whose clues hold the same non-zero value twice in one
\* row, solve(validate=False) never returns a grid: it ends in the failure
\* signal, whether or not the problem has empty cells.
C2_RowClashNeverReturnsGrid ==
    ~(ReturnedGrid /\ ~validate /\ IsSquareGrid /\ RowClash)

\* ---------------------------------------------------------------- C3

\* Every clue of the problem stands in the same cell of the solution grid.
CluesKept ==
    \A cell \in Cells(size) :
        (InGrid(cell) /\ problem[cell[1]][cell[2]] # 0)
            => solution[cell[1]][cell[2]] = problem[cell[1]][cell[2]]

\* C3: in every state of a solve every clue of the problem stands unchanged
\* in the solution grid, and no step changes the problem grid.
C3_CluesKeptProblemUnchanged ==
    [](IsSquareGrid => CluesKept) /\ [][problem' = problem]_vars

\* A nested call has failed while cells are written, in a problem with clues.
C3_Witness ==
    /\ pc = "ret" /\ retval = "False" /\ stack # << >>
    /\ NumEmpty(solution) < NumEmpty(problem)
    /\ NumEmpty(problem) < size * size

\* ---------------------------------------------------------------- C4

\* C4: for a square problem of perfect-square size, when some filling of the
\* empty cells makes every row, column and box duplicate-free a finished
\* solve has returned a grid, and it has returned False only when there is
\* no such filling.
C4_SearchIsComplete ==
    (pc = "idle" /\ IsSquareGrid /\ PerfectSquare(size)
        /\ last.outcome \notin {"none", "InvalidProblemError"})
        => /\ Completions(problem) # {} => last.outcome = "grid"
           /\ last.outcome = "False" => Completions(problem) = {}

\* A 4x4 problem with clash-free clues and empty cells has no filling, and
\* solve has returned False.
C4_Witness ==
    ReturnedFalse /\ CleanProblem /\ size = 4 /\ NumEmpty(problem) >= 2

\* ---------------------------------------------------------------- C5

\* The message of the first structural defect in the order size, then the
\* rows from the top; "ok" when the problem has none.
FirstDefect ==
    IF ~PerfectSquare(size) THEN "problem size is not a square"
    ELSE IF IsSquareGrid THEN "ok"
    ELSE LET r == CHOOSE q \in Idx(size) :
                     /\ ~is_list[q] \/ PyLen(problem[q]) # size
                     /\ \A o \in Idx(q) : is_list[o] /\ PyLen(problem[o]) = size
         IN  IF is_list[r] THEN "problem is not a square grid"
             ELSE "problem is not a list of lists"

\* C5: a call ends in InvalidProblemError only with validate=true and a
\* structurally invalid problem, the message being that of the first defect
\* (size not a perfect square first, then the rows from the top); a call
\* with validate=true that does not end in it (it searches, or has ended
\* otherwise) has a structurally valid problem; and the step that raises
\* the error (the only step from "idle" to "idle") leaves the solution grid
\* and the problem grid as they were.
C5_InvalidProblemExactlyWhenInvalid ==
    /\ [](RaisedInvalid
            => /\ validate
               /\ FirstDefect # "ok"
               /\ last.message = FirstDefect)
    /\ []((validate /\ ~RaisedInvalid) => FirstDefect = "ok")
    /\ [][(pc = "idle" /\ pc' = "idle")
            => /\ last'.outcome = "InvalidProblemError"
               /\ solution' = solution
               /\ problem' = problem]_vars

\* A 4x4 problem whose first defective row is a list of the wrong length,
\* with a row that is not a list further down, has raised "not a square grid".
C5_Witness ==
    /\ RaisedInvalid /\ size = 4
    /\ last.message = "problem is not a square grid"
    /\ \E r \in Idx(size) : ~is_list[r]

\* ---------------------------------------------------------------- C6

\* C6: solve(validate=False) on a square problem never ends in an error,
\* whatever the size: no read of the row, column and box checks lies outside
\* the grid, and the call returns a grid or False.
C6_SearchNeverRaises ==
    (pc = "idle" /\ ~validate /\ IsSquareGrid /\ last.outcome # "none")
        => last.outcome \in {"grid", "False"}

\* ---------------------------------------------------------------- C7

\* The nested calls of solve in progress: every active call but the
\* top-level one.  A call in its loop has a frame on the stack; at "call"
\* and at "ret" the running call has none, and the frames are its callers.
Depth ==
    CASE pc = "idle" -> 0
      [] pc = "loop" -> Len(stack) - 1
      [] OTHER -> Len(stack)

\* Each nested call found strictly fewer empty cells than its caller.
FewerEmptyCells ==
    /\ \A i \in 1 .. (Len(stack) - 1) :
          NumEmpty(stack[i + 1].entry) < NumEmpty(stack[i].entry)
    /\ (pc = "call" /\ stack # << >>) => NumEmpty(solution) < NumEmpty(Top.entry)

\* C7: every call of solve on a square problem ends, the recursion is never
\* deeper than the number of empty cells of the problem, and each nested
\* call starts with strictly fewer empty cells than its caller.
C7_TerminatesWithinDepth ==
    /\ [](IsSquareGrid => (Depth <= NumEmpty(problem) /\ FewerEmptyCells))
    /\ (pc # "idle") ~> (pc = "idle")

\* The recursion is as deep as the 14 or more empty cells of the problem.
C7_Witness ==
    /\ IsSquareGrid /\ NumEmpty(problem) >= 14
    /\ Depth = NumEmpty(problem)

\* ---------------------------------------------------------------- C8

\* C8: for a square problem whose clues hold no duplicate, no row, column or
\* box of the solution grid holds a non-zero value twice, in any state.
C8_NoDuplicatesDuringSearch ==
    (IsSquareGrid /\ NoDuplicates(problem)) => NoDuplicates(solution)

\* In a 4x4 problem a number has been undone and a later one is about to be
\* tried, with cells written further up.
C8_Witness ==
    /\ IsSquareGrid /\ NoDuplicates(problem) /\ size = 4
    /\ pc = "loop" /\ Top.number > 1 /\ Len(stack) >= 3
    /\ solution # problem

\* ---------------------------------------------------------------- C9

\* C9: for a solvable problem of perfect-square size with clash-free clues
\* the grid returned is a filling of the problem and is the least of all
\* its fillings in the lexicographic order of the row-major readings.
C9_FirstInSearchOrder ==
    (ReturnedGrid /\ CleanProblem)
        => /\ solution \in Completions(problem)
           /\ \A g \in Completions(problem) : LexLeq(solution, g)

\* A 4x4 problem with more than one filling has been solved.
C9_Witness ==
    /\ ReturnedGrid /\ CleanProblem /\ size = 4
    /\ Cardinality(Completions(problem)) > 1

\* --------------------------------------------------------------- C10

====
